---- MODULE Spec2Model ----
(***************************************************************************)
(* Model of the price calculator of gocommerce                             *)
(* (calculator/calculator.go): tax rule matching, per-item tax, discount   *)
(* and total, rint, and the aggregation loop of CalculatePrice.            *)
(*                                                                         *)
(* Numbers.  uint64 values are represented by their residue of smallest    *)
(* magnitude modulo 2^64: a non-negative integer n stands for itself, a    *)
(* negative integer -m stands for the wrapped value 2^64 - m.  With this   *)
(* representation the wrapping +, - and * of Go are the integer +, - and * *)
(* (all magnitudes in the model stay far below 2^31).                      *)
(*                                                                         *)
(* float64 values are modelled bit for bit: a positive binary64 number is  *)
(* a record [m, e] with m its 53 significand bits, most significant first, *)
(* and e the exponent of the last bit, so that the value is m * 2^e.  The  *)
(* operations round to nearest, ties to even, as IEEE-754 does.            *)
(***************************************************************************)
EXTENDS Integers, Sequences, FiniteSets, TLC

\* ------------------------------------------------------------------ bounds
MaxPrice == 120
MaxRules == 2
MaxItems == 2
MaxQty == 3
MaxSub == 2

\* ------------------------------------------------------- float64 arithmetic
Mantissa == 53

FZero == [m |-> <<>>, e |-> 0]

\* number of binary digits of n (0 for n = 0), n < 2^30
BitLen(n) == CHOOSE l \in 0..30 : n < 2^l /\ (l = 0 \/ n >= 2^(l - 1))

\* the low w binary digits of n, most significant first
LowBits(n, w) == [i \in 1..w |-> (n \div 2^(w - i)) % 2]

\* binary digits of a non-negative integer, most significant first
Bits(n) == LowBits(n, BitLen(n))

RECURSIVE ToNat(_)
ToNat(bits) ==
    IF Len(bits) = 0 THEN 0
    ELSE IF Len(bits) = 1 THEN bits[1]
    ELSE LET h == Len(bits) \div 2
         IN  ToNat(SubSeq(bits, 1, h)) * 2^(Len(bits) - h) + ToNat(SubSeq(bits, h + 1, Len(bits)))

Pad(bits, n) == [i \in 1..n |-> IF i <= Len(bits) THEN bits[i] ELSE 0]

AnyOne(bits) == \E i \in 1..Len(bits) : bits[i] = 1

AnyZero(bits) == \E i \in 1..Len(bits) : bits[i] = 0

\* bits + 1; one digit longer when every digit was 1
Inc(bits) ==
    IF ~AnyZero(bits) THEN <<1>> \o [i \in 1..Len(bits) |-> 0]
    ELSE LET j == CHOOSE i \in 1..Len(bits) :
                      bits[i] = 0 /\ \A k \in (i + 1)..Len(bits) : bits[k] = 1
         IN  [i \in 1..Len(bits) |-> IF i < j THEN bits[i] ELSE IF i = j THEN 1 ELSE 0]

\* round the number bits * 2^e (+ something in (0, 2^e) when sticky) to 53
\* digits, to nearest, ties to even.  bits[1] = 1 and Len(bits) >= 53.
RoundNearestEven(bits, sticky, e) ==
    LET L    == Len(bits)
        m    == SubSeq(bits, 1, Mantissa)
        rest == SubSeq(bits, Mantissa + 1, L)
        ne   == e + (L - Mantissa)
        half == rest # <<>> /\ rest[1] = 1
        low  == sticky \/ (Len(rest) > 1 /\ AnyOne(SubSeq(rest, 2, Len(rest))))
        up   == half /\ (low \/ m[Mantissa] = 1)
        mi   == Inc(m)
    IN  IF ~up THEN [m |-> m, e |-> ne]
        ELSE IF Len(mi) > Mantissa THEN [m |-> SubSeq(mi, 1, Mantissa), e |-> ne + 1]
        ELSE [m |-> mi, e |-> ne]

RECURSIVE DivBits(_, _, _, _)
\* the next 16 * k binary digits of r / d (r < d), appended to acc, sixteen
\* digits in a step, and the remainder left
DivBits(r, d, acc, k) ==
    IF k = 0 THEN [bits |-> acc, rem |-> r]
    ELSE LET t == r * 2^16
         IN  DivBits(t % d, d, acc \o LowBits(t \div d, 16), k - 1)

RECURSIVE LeadZeros(_, _, _)
\* number of zero digits of r / d (0 < r < d) after the binary point
LeadZeros(r, d, z) == IF 2 * r >= d THEN [z |-> z, r |-> r] ELSE LeadZeros(2 * r, d, z + 1)

\* float64(n) / float64(d) for integers n >= 0, d > 0: the quotient n / d
\* correctly rounded (the digits beyond the 53rd and the remainder decide)
FDiv(n, d) ==
    IF n = 0 THEN FZero
    ELSE LET q == n \div d
             r == n % d
         IN  IF q > 0
             THEN LET dv == DivBits(r, d, Bits(q), 4)
                  IN  RoundNearestEven(dv.bits, dv.rem # 0, -64)
             ELSE LET lz == LeadZeros(r, d, 0)
                      dv == DivBits(lz.r, d, <<>>, 4)
                  IN  RoundNearestEven(dv.bits, dv.rem # 0, -(lz.z + 64))

RECURSIVE MulSmall(_, _, _)
\* digits of bits * k + carry, k a small positive integer, sixteen digits
\* in a step from the least significant end
MulSmall(bits, k, carry) ==
    IF Len(bits) = 0 THEN Bits(carry)
    ELSE LET w  == IF Len(bits) < 16 THEN Len(bits) ELSE 16
             lo == SubSeq(bits, Len(bits) - w + 1, Len(bits))
             t  == ToNat(lo) * k + carry
         IN  MulSmall(SubSeq(bits, 1, Len(bits) - w), k, t \div 2^w) \o LowBits(t % 2^w, w)

\* x * float64(k) for a small positive integer k, correctly rounded
FMul(x, k) ==
    IF x = FZero THEN FZero
    ELSE RoundNearestEven(MulSmall(x.m, k, 0), FALSE, x.e)

\* math.Modf: integral part v and the position of frac against 0.5
\* ("lt", "eq", "gt"), for x >= 0
Modf(x) ==
    IF x = FZero THEN [v |-> 0, frac |-> "lt"]
    ELSE LET ib == Mantissa + x.e
         IN  IF ib >= Mantissa THEN [v |-> ToNat(Pad(x.m, ib)), frac |-> "lt"]
             ELSE IF ib < 0 THEN [v |-> 0, frac |-> "lt"]
             ELSE LET first == x.m[ib + 1]
                      rest  == SubSeq(x.m, ib + 2, Mantissa)
                  IN  [v    |-> ToNat(SubSeq(x.m, 1, ib)),
                       frac |-> IF first = 0 THEN "lt"
                                ELSE IF AnyOne(rest) THEN "gt" ELSE "eq"]

\* rint of calculator.go, on x >= 0 (its operands are conversions of uint64)
rint(x) ==
    LET s == Modf(x)
    IN  IF x # FZero
        THEN IF s.frac = "gt" \/ (s.frac = "eq" /\ s.v % 2 # 0) THEN s.v + 1 ELSE s.v
        ELSE s.v

\* ------------------------------------------------------------ tax rules
\* the nil pointer / nil interface value
Nil == [nil |-> TRUE]

\* membership in a slice, as the loops of AppliesTo test it
Contains(list, x) == \E k \in 1..Len(list) : list[k] = x

\* (t *Tax) AppliesTo(country, productType)
AppliesTo(t, c, productType) ==
    LET byType == IF Len(t.ProductTypes) > 0 THEN Contains(t.ProductTypes, productType) ELSE TRUE
    IN  IF ~byType THEN FALSE
        ELSE IF Len(t.Countries) > 0 THEN Contains(t.Countries, c) ELSE TRUE

RECURSIVE LastApplying(_, _, _, _)
\* faulty variant of FirstApplying: the loop without its break, a later rule overrides
LastApplying(taxes, c, productType, k) ==
    IF k > Len(taxes) THEN Nil
    ELSE LET later == LastApplying(taxes, c, productType, k + 1)
         IN  IF later # Nil THEN later
             ELSE IF AppliesTo(taxes[k], c, productType) THEN taxes[k] ELSE Nil

RECURSIVE FirstApplying(_, _, _, _)
\* the loop "for _, t := range settings.Taxes { if t.AppliesTo(..) {..; break} }"
\* from position k on: the rule it stops at, or Nil when it runs to the end
FirstApplying(taxes, c, productType, k) ==
    IF k > Len(taxes) THEN Nil
    ELSE IF AppliesTo(taxes[k], c, productType) THEN taxes[k]
    ELSE FirstApplying(taxes, c, productType, k + 1)

\* the amount of a taxable sub-item: percentage stays 0 when no rule applies
SubItemAmount(s, c, sub) ==
    LET t == FirstApplying(s.Taxes, c, sub.productType, 1)
    IN  [price |-> sub.price, percentage |-> IF t = Nil THEN 0 ELSE t.Percentage]

\* faulty variant of TaxAmounts: every branch asks for settings
TaxAmountsNeedSettings(s, c, item) ==
    IF s = Nil THEN <<>>
    ELSE IF item.vat # 0 THEN << [price |-> item.price, percentage |-> item.vat] >>
    ELSE IF Len(item.taxable) > 0
    THEN [k \in 1..Len(item.taxable) |-> SubItemAmount(s, c, item.taxable[k])]
    ELSE LET t == FirstApplying(s.Taxes, c, item.productType, 1)
         IN  IF t = Nil THEN <<>> ELSE << [price |-> item.price, percentage |-> t.Percentage] >>

\* faulty variant of TaxAmounts: the sub-items are looked at before the fixed VAT
TaxAmountsSubItemsFirst(s, c, item) ==
    IF s # Nil /\ Len(item.taxable) > 0
    THEN [k \in 1..Len(item.taxable) |-> SubItemAmount(s, c, item.taxable[k])]
    ELSE IF item.vat # 0 THEN << [price |-> item.price, percentage |-> item.vat] >>
    ELSE IF s # Nil
    THEN LET t == FirstApplying(s.Taxes, c, item.productType, 1)
         IN  IF t = Nil THEN <<>> ELSE << [price |-> item.price, percentage |-> t.Percentage] >>
    ELSE <<>>

\* faulty variant of TaxAmounts: the sub-items' rules are looked up with the product
\* type of the parent
TaxAmountsParentType(s, c, item) ==
    IF item.vat # 0 THEN << [price |-> item.price, percentage |-> item.vat] >>
    ELSE IF s # Nil /\ Len(item.taxable) > 0
    THEN [k \in 1..Len(item.taxable) |->
             SubItemAmount(s, c, [item.taxable[k] EXCEPT !.productType = item.productType])]
    ELSE IF s # Nil
    THEN LET t == FirstApplying(s.Taxes, c, item.productType, 1)
         IN  IF t = Nil THEN <<>> ELSE << [price |-> item.price, percentage |-> t.Percentage] >>
    ELSE <<>>

\* the taxAmounts slice CalculatePrice builds for one item
TaxAmounts(s, c, item) ==
    IF item.vat # 0 THEN << [price |-> item.price, percentage |-> item.vat] >>
    ELSE IF s # Nil /\ Len(item.taxable) > 0
    THEN [k \in 1..Len(item.taxable) |-> SubItemAmount(s, c, item.taxable[k])]
    ELSE IF s # Nil
    THEN LET t == FirstApplying(s.Taxes, c, item.productType, 1)
         IN  IF t = Nil THEN <<>> ELSE << [price |-> item.price, percentage |-> t.Percentage] >>
    ELSE <<>>

\* ----------------------------------------------------------- item price
\* faulty variant of BackCalc: the quotient is converted to uint64 without rint
BackCalcTruncated(p, percentage) == Modf(FMul(FDiv(p, 100 + percentage), 100)).v

\* rint(float64(tax.price) / (100 + float64(tax.percentage)) * 100)
BackCalc(p, percentage) == rint(FMul(FDiv(p, 100 + percentage), 100))

\* rint(float64(tax.price) * float64(tax.percentage) / 100); the product of
\* the two conversions is an integer below 2^53 and therefore exact
TaxOn(p, percentage) == rint(FDiv(p * percentage, 100))

RECURSIVE ApplyTaxes(_, _, _, _)
\* the loop over taxAmounts from position k on; acc holds Subtotal and Taxes
ApplyTaxes(amounts, includeTaxes, k, acc) ==
    IF k > Len(amounts) THEN acc
    ELSE LET tax   == amounts[k]
             basis == IF includeTaxes THEN BackCalc(tax.price, tax.percentage) ELSE tax.price
         IN  ApplyTaxes(amounts, includeTaxes, k + 1,
                        [Subtotal |-> IF includeTaxes THEN acc.Subtotal + basis ELSE acc.Subtotal,
                         Taxes    |-> acc.Taxes + TaxOn(basis, tax.percentage)])

IncludeTaxes(s) == s # Nil /\ s.PricesIncludeTaxes

\* Subtotal and Taxes of one item (calculator.go lines 85 to 121)
SubtotalAndTaxes(s, c, item) ==
    LET amounts == TaxAmounts(s, c, item)
    IN  IF Len(amounts) # 0
        THEN ApplyTaxes(amounts, IncludeTaxes(s), 1,
                        [Subtotal |-> IF IncludeTaxes(s) THEN 0 ELSE item.price, Taxes |-> 0])
        ELSE [Subtotal |-> item.price, Taxes |-> 0]

\* coupon.ValidForType(productType): the coupon answers from its own data
ValidForType(cp, productType) == productType \in cp.validTypes

\* faulty variant of Discount: the coupon's fixed discount is taken off as well
DiscountWithFixed(s, cp, item, st) ==
    IF cp # Nil /\ ValidForType(cp, item.productType)
    THEN LET amountToDiscount == IF IncludeTaxes(s) THEN st.Subtotal + st.Taxes ELSE st.Subtotal
         IN  rint(FDiv(amountToDiscount * cp.percentage, 100)) + cp.fixed
    ELSE 0

\* faulty variant of Discount: the taxes are part of the discounted amount in both
\* pricing modes
DiscountTaxesAlways(s, cp, item, st) ==
    IF cp # Nil /\ ValidForType(cp, item.productType)
    THEN rint(FDiv((st.Subtotal + st.Taxes) * cp.percentage, 100))
    ELSE 0

\* itemPrice.Discount (calculator.go lines 122 to 128)
Discount(s, cp, item, st) ==
    IF cp # Nil /\ ValidForType(cp, item.productType)
    THEN LET amountToDiscount == IF IncludeTaxes(s) THEN st.Subtotal + st.Taxes ELSE st.Subtotal
         IN  rint(FDiv(amountToDiscount * cp.percentage, 100))
    ELSE 0

\* faulty variant of ItemTotal: the taxes are left out of the total
ItemTotalNoTaxes(subtotal, discount, taxes) == subtotal - discount

\* itemPrice.Total = itemPrice.Subtotal - itemPrice.Discount + itemPrice.Taxes
ItemTotal(subtotal, discount, taxes) == (subtotal - discount) + taxes

\* the ItemPrice the loop body computes for one item
ItemPriceOf(s, c, cp, item) ==
    LET st == SubtotalAndTaxes(s, c, item)
        d  == Discount(s, cp, item, st)
    IN  [Quantity |-> item.quantity,
         Subtotal |-> st.Subtotal,
         Discount |-> d,
         Taxes    |-> st.Taxes,
         Total    |-> ItemTotal(st.Subtotal, d, st.Taxes)]

\* faulty variant of Accumulate: the unit amounts are summed without the quantity
AccumulateUnits(p, ip) ==
    [Items    |-> Append(p.Items, ip),
     Subtotal |-> p.Subtotal + ip.Subtotal,
     Discount |-> p.Discount + ip.Discount,
     Taxes    |-> p.Taxes + ip.Taxes,
     Total    |-> p.Total + ip.Total]

\* price.Items = append(..) and the four += of lines 132 to 137
Accumulate(p, ip) ==
    [Items    |-> Append(p.Items, ip),
     Subtotal |-> p.Subtotal + ip.Subtotal * ip.Quantity,
     Discount |-> p.Discount + ip.Discount * ip.Quantity,
     Taxes    |-> p.Taxes + ip.Taxes * ip.Quantity,
     Total    |-> p.Total + ip.Total * ip.Quantity]

\* price.Total = price.Subtotal - price.Discount + price.Taxes
OrderTotal(p) == (p.Subtotal - p.Discount) + p.Taxes

\* --------------------------------------------------------------- inputs
SeqsUpTo(S, n) == UNION {[1..k -> S] : k \in 0..n}

\* the lists of at most n elements of S that repeat none
ListsUpTo(S, n) == {l \in SeqsUpTo(S, n) : \A i, j \in 1..Len(l) : l[i] = l[j] => i = j}

Tax(percentage, productTypes, countries) ==
    [Percentage |-> percentage, ProductTypes |-> productTypes, Countries |-> countries]

TaxRules ==
    { Tax(7, <<"book">>, <<>>),
      Tax(10, <<"pdf", "ebook">>, <<"FR", "DE">>),
      Tax(20, <<>>, <<>>) }

Countries == {"USA", "DE"}

ProductTypes == {"book", "ebook"}

Item(p, productType, vat, taxable, quantity) ==
    [price |-> p, productType |-> productType, vat |-> vat, taxable |-> taxable,
     quantity |-> quantity]

\* a taxable sub-item: CalculatePrice reads its price and product type only
SubItems ==
    { [price |-> 65, productType |-> "book"],
      [price |-> 1006, productType |-> "ebook"],
      [price |-> 200, productType |-> "pdf"] }

Coupon(validTypes, percentage, fixed, forPrice) ==
    [validTypes |-> validTypes, percentage |-> percentage, fixed |-> fixed,
     forPrice |-> forPrice]

BookCoupon == Coupon({"book"}, 10, 0, TRUE)

Coupons ==
    { Nil, BookCoupon,
      Coupon({"book", "ebook"}, 100, 500, TRUE),
      Coupon({"book"}, 150, 0, FALSE) }

Settings(includeTaxes, taxes) == [PricesIncludeTaxes |-> includeTaxes, Taxes |-> taxes]

\* one item of any shape under any settings
ItemInputs ==
    [s  : {Nil} \cup {Settings(b, ts) : b \in BOOLEAN, ts \in ListsUpTo(TaxRules, MaxRules)},
     c  : Countries,
     cp : {Nil, BookCoupon},
     is : {<<Item(p, ty, vat, sub, 1)>> :
              p \in {69, 1000}, ty \in ProductTypes, vat \in {0, 9},
              sub \in ListsUpTo(SubItems, MaxSub)}]

\* one simple item of every price under one rule of every percentage
RoundPercentages == {0, 20, 50, 100}

RoundInputs ==
    [s  : {Settings(b, <<Tax(pct, <<>>, <<>>)>>) : b \in BOOLEAN, pct \in RoundPercentages},
     c  : {"DE"},
     cp : Coupons,
     is : {<<Item(p, "book", 0, <<>>, 1)>> : p \in 0..MaxPrice}]

\* orders of several items with quantities
OrderInputs ==
    [s  : {Nil, Settings(FALSE, <<Tax(20, <<>>, <<>>)>>), Settings(TRUE, <<Tax(20, <<>>, <<>>)>>)},
     c  : {"DE"},
     cp : {Nil, BookCoupon},
     is : SeqsUpTo({Item(p, "book", 0, <<>>, q) : p \in {69, 1000}, q \in {0, 1, MaxQty}},
                   MaxItems)]

\* ---------------------------------------------------------- state machine
VARIABLES settings, country, coupon, items, pc, idx, price

vars == <<settings, country, coupon, items, pc, idx, price>>

\* price := Price{}
EmptyPrice == [Items |-> <<>>, Subtotal |-> 0, Discount |-> 0, Taxes |-> 0, Total |-> 0]

Call(in) ==
    /\ settings = in.s
    /\ country = in.c
    /\ coupon = in.cp
    /\ items = in.is
    /\ pc = "loop"
    /\ idx = 0
    /\ price = EmptyPrice

Init == \E in \in ItemInputs \cup RoundInputs \cup OrderInputs : Call(in)

\* one pass of "for _, item := range items"
LoopItem ==
    /\ pc = "loop"
    /\ idx < Len(items)
    /\ price' = Accumulate(price, ItemPriceOf(settings, country, coupon, items[idx + 1]))
    /\ idx' = idx + 1
    /\ UNCHANGED <<settings, country, coupon, items, pc>>

\* the statements after the loop: the order total, and return
Return ==
    /\ pc = "loop"
    /\ idx = Len(items)
    /\ price' = [price EXCEPT !.Total = OrderTotal(price)]
    /\ pc' = "done"
    /\ UNCHANGED <<settings, country, coupon, items, idx>>

Next == LoopItem \/ Return

Spec == Init /\ [][Next]_vars

\* ------------------------------------------------- vocabulary of the claims
Done == pc = "done"

\* the positions of the items priced so far
Priced == 1..Len(price.Items)

Simple(item) == item.vat = 0 /\ Len(item.taxable) = 0

\* n / d rounded half to even, on the exact quotient (n >= 0, d > 0)
RoundHalfEven(n, d) ==
    LET v == n \div d
        r == n % d
    IN  IF 2 * r > d \/ (2 * r = d /\ v % 2 = 1) THEN v + 1 ELSE v

Elems(list) == {list[k] : k \in 1..Len(list)}

\* a rule matches: each filter is empty or holds the value
Matches(t, c, productType) ==
    /\ (t.ProductTypes = <<>> \/ productType \in Elems(t.ProductTypes))
    /\ (t.Countries = <<>> \/ c \in Elems(t.Countries))

Matching(taxes, c, productType) == {j \in 1..Len(taxes) : Matches(taxes[j], c, productType)}

Least(S) == CHOOSE j \in S : \A k \in S : j <= k

\* percentage of the first matching rule in configured order, 0 when none
MatchedPercentage(taxes, c, productType) ==
    IF Matching(taxes, c, productType) = {} THEN 0
    ELSE taxes[Least(Matching(taxes, c, productType))].Percentage

RECURSIVE SumOver(_, _)
\* sum of f[k] for k in 1..n
SumOver(f, n) == IF n = 0 THEN 0 ELSE SumOver(f, n - 1) + f[n]

\* ----------------------------------------------------------------- claims

\* C1: every priced item has Total = Subtotal - Discount + Taxes, and the
\* returned order has Total = Subtotal - Discount + Taxes (uint64 arithmetic).
C1_TotalIdentity ==
    /\ \A k \in Priced :
          LET ip == price.Items[k] IN ip.Total = ip.Subtotal - ip.Discount + ip.Taxes
    /\ Done => price.Total = price.Subtotal - price.Discount + price.Taxes

C1_Witness ==
    /\ Done
    /\ Len(price.Items) = 2
    /\ \A k \in Priced :
          price.Items[k].Quantity > 0 /\ price.Items[k].Discount > 0 /\ price.Items[k].Taxes > 0

\* C2: for a simple item under settings, the percentage used is that of the
\* first rule, in configured order, whose filters match (an empty filter
\* matches everything); a later matching rule never overrides it; when no
\* rule matches the taxes are 0 and the subtotal is the unit price.
C2_FirstMatch ==
    \A k \in Priced :
        LET item == items[k]
            ip   == price.Items[k]
        IN  (Simple(item) /\ settings # Nil) =>
                LET p == MatchedPercentage(settings.Taxes, country, item.productType)
                IN  IF Matching(settings.Taxes, country, item.productType) = {}
                    THEN ip.Taxes = 0 /\ ip.Subtotal = item.price
                    ELSE IF settings.PricesIncludeTaxes
                    THEN /\ ip.Subtotal = BackCalc(item.price, p)
                         /\ ip.Taxes = RoundHalfEven(ip.Subtotal * p, 100)
                    ELSE /\ ip.Subtotal = item.price
                         /\ ip.Taxes = RoundHalfEven(item.price * p, 100)

\* two rules match, the second with another percentage and after a rule with
\* a filter, and the item was taxed at the first one's
C2_Witness ==
    /\ settings # Nil
    /\ ~settings.PricesIncludeTaxes
    /\ Len(settings.Taxes) = 2
    /\ \E k \in Priced :
          /\ Simple(items[k])
          /\ Matching(settings.Taxes, country, items[k].productType) = {1, 2}
          /\ settings.Taxes[1].ProductTypes # <<>>
          /\ settings.Taxes[1].Percentage # settings.Taxes[2].Percentage
          /\ price.Items[k].Taxes = RoundHalfEven(items[k].price * settings.Taxes[1].Percentage, 100)
          /\ price.Items[k].Taxes # RoundHalfEven(items[k].price * settings.Taxes[2].Percentage, 100)

\* C3 as stated: without settings no item has taxes, whatever its fields,
\* and its subtotal is its unit price.
C3_NoSettingsNoTax ==
    settings = Nil =>
        \A k \in Priced : price.Items[k].Taxes = 0 /\ price.Items[k].Subtotal = items[k].price

\* C3 amended: without settings the subtotal is the unit price and no tax
\* rule or sub-item is taxed, but an item with a fixed VAT percentage is
\* still taxed at it, tax-exclusive: Taxes = round(price * fixedVAT / 100).
C3_NoSettingsOnlyFixedVAT ==
    settings = Nil =>
        \A k \in Priced :
            /\ price.Items[k].Subtotal = items[k].price
            /\ price.Items[k].Taxes =
                  IF items[k].vat # 0 THEN RoundHalfEven(items[k].price * items[k].vat, 100) ELSE 0

C3_Witness ==
    /\ settings = Nil
    /\ \E k \in Priced :
          items[k].vat # 0 /\ Len(items[k].taxable) > 0 /\ price.Items[k].Taxes > 0

\* C4: an item with a fixed VAT percentage is taxed from the pair (unit
\* price, fixed VAT) alone: tax-exclusive, Subtotal is the unit price and
\* Taxes = round(price * fixedVAT / 100); tax-inclusive, Subtotal is the
\* back-calculation of the unit price at the fixed VAT and Taxes the tax on
\* it.  Rules, country, product type and sub-items play no part.
C4_FixedVAT ==
    \A k \in Priced :
        LET item == items[k]
            ip   == price.Items[k]
        IN  item.vat # 0 =>
                IF settings # Nil /\ settings.PricesIncludeTaxes
                THEN /\ ip.Subtotal = BackCalc(item.price, item.vat)
                     /\ ip.Taxes = RoundHalfEven(ip.Subtotal * item.vat, 100)
                ELSE /\ ip.Subtotal = item.price
                     /\ ip.Taxes = RoundHalfEven(item.price * item.vat, 100)

\* a fixed-VAT item with sub-items, under a rule that matches it at another
\* percentage
C4_Witness ==
    /\ settings # Nil
    /\ ~settings.PricesIncludeTaxes
    /\ \E k \in Priced :
          /\ items[k].vat # 0
          /\ Len(items[k].taxable) = 2
          /\ Matching(settings.Taxes, country, items[k].productType) # {}
          /\ MatchedPercentage(settings.Taxes, country, items[k].productType) # items[k].vat
          /\ price.Items[k].Taxes = RoundHalfEven(items[k].price * items[k].vat, 100)

\* C5: the tax-inclusive back-calculation inverts the tax-exclusive
\* calculation: when a simple item of price S is taxed T under a matching
\* rule in tax-exclusive mode, pricing the same item at S + T under the same
\* rules in tax-inclusive mode, without coupon, gives Subtotal S, Taxes T
\* and Total S + T.
C5_InclusiveInvertsExclusive ==
    \A k \in Priced :
        LET item == items[k]
            T    == price.Items[k].Taxes
        IN  ( /\ Simple(item)
              /\ settings # Nil
              /\ ~settings.PricesIncludeTaxes
              /\ Matching(settings.Taxes, country, item.productType) # {} ) =>
                LET back == ItemPriceOf(Settings(TRUE, settings.Taxes), country, Nil,
                                        [item EXCEPT !.price = item.price + T])
                IN  /\ back.Subtotal = item.price
                    /\ back.Taxes = T
                    /\ back.Total = item.price + T

\* price 5 at 50 percent: the tax 2.5 was rounded to 2, and 7 is priced back
C5_Witness ==
    /\ settings # Nil
    /\ ~settings.PricesIncludeTaxes
    /\ \E k \in Priced :
          /\ Simple(items[k])
          /\ items[k].price = 5
          /\ MatchedPercentage(settings.Taxes, country, items[k].productType) = 50
          /\ price.Items[k].Taxes = 2

\* C6: every monetary division (back-calculation, tax amount, discount) is
\* the exact quotient rounded half to even.  Stated for the items taxed from
\* one pair under a matching rule.
C6_HalfEvenEverywhere ==
    \A k \in Priced :
        LET item == items[k]
            ip   == price.Items[k]
        IN  ( /\ Simple(item)
              /\ settings # Nil
              /\ Matching(settings.Taxes, country, item.productType) # {} ) =>
                LET p    == MatchedPercentage(settings.Taxes, country, item.productType)
                    base == IF settings.PricesIncludeTaxes THEN ip.Subtotal + ip.Taxes
                            ELSE ip.Subtotal
                IN  /\ settings.PricesIncludeTaxes =>
                           ip.Subtotal = RoundHalfEven(item.price * 100, 100 + p)
                    /\ ip.Taxes = RoundHalfEven(ip.Subtotal * p, 100)
                    /\ (coupon # Nil /\ item.productType \in coupon.validTypes) =>
                           ip.Discount = RoundHalfEven(base * coupon.percentage, 100)

\* C7: the discount of an item is round(base * percentage / 100) under a
\* coupon valid for its product type, base being Subtotal (tax-exclusive) or
\* Subtotal + Taxes (tax-inclusive), and 0 otherwise; the coupon's fixed
\* discount and price validity change nothing in the result, and Subtotal
\* and Taxes are those of the item priced without coupon.
C7_Discount ==
    \A k \in Priced :
        LET item == items[k]
            ip   == price.Items[k]
            base == IF settings # Nil /\ settings.PricesIncludeTaxes
                    THEN ip.Subtotal + ip.Taxes ELSE ip.Subtotal
            bare == ItemPriceOf(settings, country, Nil, item)
        IN  /\ ip.Discount =
                  IF coupon # Nil /\ item.productType \in coupon.validTypes
                  THEN RoundHalfEven(base * coupon.percentage, 100) ELSE 0
            /\ ip.Subtotal = bare.Subtotal
            /\ ip.Taxes = bare.Taxes
            /\ coupon # Nil =>
                  /\ ItemPriceOf(settings, country, [coupon EXCEPT !.fixed = 500 - @], item) = ip
                  /\ ItemPriceOf(settings, country, [coupon EXCEPT !.forPrice = ~@], item) = ip

\* tax-inclusive, a valid coupon with a fixed discount: the discount is taken
\* on subtotal plus taxes
C7_Witness ==
    /\ settings # Nil
    /\ settings.PricesIncludeTaxes
    /\ coupon # Nil
    /\ coupon.fixed > 0
    /\ \E k \in Priced :
          LET ip == price.Items[k]
          IN  /\ items[k].productType \in coupon.validTypes
              /\ ip.Taxes > 0
              /\ ip.Discount = RoundHalfEven((ip.Subtotal + ip.Taxes) * coupon.percentage, 100)
              /\ ip.Discount # RoundHalfEven(ip.Subtotal * coupon.percentage, 100)

\* C8: the result lists one ItemPrice per input item, in input order, with
\* the item's quantity, and each order field is the sum over the items of
\* the unit field times the quantity.
C8_Aggregation ==
    /\ Len(price.Items) = idx
    /\ Done => idx = Len(items)
    /\ \A k \in Priced :
          /\ price.Items[k] = ItemPriceOf(settings, country, coupon, items[k])
          /\ price.Items[k].Quantity = items[k].quantity
    /\ price.Subtotal =
          SumOver([k \in Priced |-> price.Items[k].Subtotal * price.Items[k].Quantity], idx)
    /\ price.Discount =
          SumOver([k \in Priced |-> price.Items[k].Discount * price.Items[k].Quantity], idx)
    /\ price.Taxes =
          SumOver([k \in Priced |-> price.Items[k].Taxes * price.Items[k].Quantity], idx)
    /\ price.Total =
          SumOver([k \in Priced |-> price.Items[k].Total * price.Items[k].Quantity], idx)

\* quantity 3 at unit total 1100 beside a quantity-0 item: order total 3300
C8_Witness ==
    /\ Done
    /\ Len(price.Items) = 2
    /\ price.Items[1].Quantity = 0
    /\ price.Items[1].Total > 0
    /\ price.Items[2].Quantity = 3
    /\ price.Items[2].Total = 1100
    /\ price.Total = 3300

\* C9: an item without fixed VAT and with sub-items, under settings, is
\* taxed the sum of the taxes of its sub-items, each rounded on its own: the
\* basis is the sub-item's price (back-calculated in tax-inclusive mode), the
\* percentage that of the first rule matching the country and the sub-item's
\* product type, or 0.  Subtotal is the parent's unit price (tax-exclusive)
\* or the sum of the back-calculated bases (tax-inclusive).
C9_Nested ==
    \A k \in Priced :
        LET item == items[k]
            ip   == price.Items[k]
            n    == Len(item.taxable)
        IN  (item.vat = 0 /\ n > 0 /\ settings # Nil) =>
                LET pctOf == [j \in 1..n |->
                                 MatchedPercentage(settings.Taxes, country,
                                                   item.taxable[j].productType)]
                    basis == [j \in 1..n |->
                                 IF settings.PricesIncludeTaxes
                                 THEN BackCalc(item.taxable[j].price, pctOf[j])
                                 ELSE item.taxable[j].price]
                IN  /\ ip.Taxes = SumOver([j \in 1..n |-> RoundHalfEven(basis[j] * pctOf[j], 100)], n)
                    /\ ip.Subtotal = IF settings.PricesIncludeTaxes THEN SumOver(basis, n)
                                     ELSE item.price

\* two sub-items taxed at 7 and 10 percent: 4.55 and 100.6 round to 5 and
\* 101, while the tax on their sum would round to 105
C9_Witness ==
    /\ settings # Nil
    /\ ~settings.PricesIncludeTaxes
    /\ \E k \in Priced :
          LET item == items[k]
          IN  /\ item.vat = 0
              /\ Len(item.taxable) = 2
              /\ item.productType = "book"
              /\ MatchedPercentage(settings.Taxes, country, item.taxable[1].productType) = 7
              /\ MatchedPercentage(settings.Taxes, country, item.taxable[2].productType) = 10
              /\ price.Items[k].Taxes = 106
              /\ RoundHalfEven(item.taxable[1].price * 7 + item.taxable[2].price * 10, 100) = 105

\* a percentage between 0 and 100, or no coupon
CouponInRange == coupon = Nil \/ coupon.percentage <= 100

\* C10 as stated: under a coupon of 0 to 100 percent the discount is at most
\* Subtotal + Taxes (at most Subtotal when tax-exclusive), the subtraction in
\* Subtotal - Discount + Taxes never wraps below 0 and Total is at most
\* Subtotal + Taxes, for each item and for the order.
C10_NeverUnderflows ==
    CouponInRange =>
        /\ \A k \in Priced :
              LET ip == price.Items[k]
              IN  /\ ip.Discount <= ip.Subtotal + ip.Taxes
                  /\ ~IncludeTaxes(settings) => ip.Discount <= ip.Subtotal
                  /\ ip.Subtotal - ip.Discount >= 0
                  /\ ip.Total >= 0
                  /\ ip.Total <= ip.Subtotal + ip.Taxes
        /\ Done =>
              /\ price.Subtotal - price.Discount >= 0
              /\ price.Total >= 0
              /\ price.Total <= price.Subtotal + price.Taxes

\* C10 amended: the discount is at most Subtotal + Taxes (at most Subtotal
\* when tax-exclusive) and Total is the true Subtotal + Taxes - Discount,
\* between 0 and Subtotal + Taxes, for each item and for the order; the
\* intermediate Subtotal - Discount stays above 0 in tax-exclusive mode only.
C10_TotalInRange ==
    CouponInRange =>
        /\ \A k \in Priced :
              LET ip == price.Items[k]
              IN  /\ ip.Discount <= ip.Subtotal + ip.Taxes
                  /\ ~IncludeTaxes(settings) =>
                        ip.Discount <= ip.Subtotal /\ ip.Subtotal - ip.Discount >= 0
                  /\ ip.Total >= 0
                  /\ ip.Total <= ip.Subtotal + ip.Taxes
        /\ Done =>
              /\ ~IncludeTaxes(settings) => price.Subtotal - price.Discount >= 0
              /\ price.Total >= 0
              /\ price.Total <= price.Subtotal + price.Taxes

\* tax-inclusive under a 100 percent coupon: the discount exceeds the
\* subtotal and the total is 0
C10_Witness ==
    /\ Done
    /\ IncludeTaxes(settings)
    /\ coupon # Nil
    /\ coupon.percentage = 100
    /\ Len(price.Items) = 1
    /\ price.Items[1].Discount > price.Items[1].Subtotal
    /\ price.Items[1].Total = 0
    /\ price.Total = 0

====
